---- MODULE Spec2Model ----
(***************************************************************************)
(* Model of the autoencoder-file-sorter pipeline:                          *)
(*   - VisAutoEncoder.__init__ / forward   (src/models/visual_models.py)    *)
(*   - train                               (src/train.py)                   *)
(*   - generate_embeddings / encode_image  (src/embedding.py)               *)
(***************************************************************************)
EXTENDS Integers, Sequences, FiniteSets, TLC

(***************************************************************************)
(* Bounds of the explored inputs.                                          *)
(***************************************************************************)
MaxLayers == 2
MaxStride == 2
MaxSize == 5
MaxEpochs == 2
MaxBatches == 2
MaxImages == 2
MaxChannels == 3
MaxEncSize == 3

\* kernel sizes, paddings and (in_channels, out_channels) pairs the layer
\* specs are drawn from
Kernels == {2, 3}
Paddings == {0, 1}
ChannelPairs == {<<3, 8>>, <<8, 3>>}

VARIABLES
    \* ---- VisAutoEncoder.__init__ / forward ----
    apc,                  \* position in the constructor
    filter_channel_sizes, \* argument: sequence of <<in_ch, out_ch, kernel, stride, padding>>
    in_size,              \* argument: <<H, W>>
    i,                    \* loop index (0-based, as enumerate gives it)
    h_out, w_out,         \* running conv output size (unbound before the first layer)
    size_list,            \* list of <<h, w>>
    encoder,              \* conv layers added to self.encoder
    decoder,              \* deconv layers added to self.decoder
    out_shape,            \* <<h, w>> of forward's result, <<>> before, "raised" on error
    \* ---- generate_embeddings / train ----
    pc,                   \* position in generate_embeddings / train
    retrain, reencode, quick, \* arguments of generate_embeddings
    epoch_num,            \* opt.epoch_num
    model_name,           \* name the model is constructed with (opt.visual_aa_args)
    mode,                 \* datas.dataset.mode
    num_batches,          \* batches one pass over the training loader yields
    num_images,           \* items the batch_size = 1 loader yields
    files0,               \* the file system when generate_embeddings is called
    files,                \* file system: path |-> content
    model,                \* weights of the model object, NoModel before it exists
    grad,                 \* state of the parameter gradients
    epoch,                \* train's epoch loop variable
    batch,                \* batches of the current epoch already optimised
    saves,                \* calls of model.save(): <<epoch, path, weights, batches done>>
    returned,             \* the model train returned, NoModel before
    enc_i,                \* images the encoding loop has taken
    encodings,            \* path |-> encoding
    label_images,         \* result of decode_images or "None"
    error,                \* the exception that ended the run, "none" otherwise
    \* ---- encode_image ----
    epc,                  \* position in encode_image
    e_quick,              \* its quick argument
    e_encoding,           \* model.encoder(image)
    e_vector,             \* local encoding_vector
    e_shape               \* local initial_shape

archVars == <<apc, filter_channel_sizes, in_size, i, h_out, w_out, size_list,
              encoder, decoder, out_shape>>

pipeVars == <<pc, retrain, reencode, quick, epoch_num, model_name, mode, num_batches,
              num_images, files0, files, model, grad, epoch, batch, saves, returned, enc_i,
              encodings, label_images, error>>

encVars == <<epc, e_quick, e_encoding, e_vector, e_shape>>

vars == <<archVars, pipeVars, encVars>>

Unbound == "unbound"

LayerSpecs ==
    { <<cp[1], cp[2], k, s, p>> : cp \in ChannelPairs, k \in Kernels,
                                   s \in 1..MaxStride, p \in Paddings }

RECURSIVE SeqsUpTo(_, _)
SeqsUpTo(S, n) ==
    IF n = 0 THEN {<<>>}
    ELSE LET shorter == SeqsUpTo(S, n - 1)
         IN  shorter \cup { Append(q, x) : q \in { r \in shorter : Len(r) = n - 1 }, x \in S }

\* the layer list walked in the given order instead of reversed
ReverseForgotten(s) == s

\* Python list.reverse() / reversed()
Reverse(s) == [j \in 1..Len(s) |-> s[Len(s) + 1 - j]]

\* torch Conv2d output size (dilation 1), as written at lines 64-65 and 68-69
ConvOutFirst(size, kernel, stride, padding) ==
    ((size + 2 * padding - (kernel - 1) - 1) \div stride) + 1

\* the later-layer branch with the "- 1" of the formula left out
ConvOutLaterOffByOne(prev, kernel, stride, padding) ==
    ((prev + 2 * padding - (kernel - 1)) \div stride) + 1

ConvOutLater(prev, kernel, stride, padding) ==
    ((prev + 2 * padding - (kernel - 1) - 1) \div stride) + 1

\* estimated deconv output size without output_padding, lines 92-93
DeconvEstimate(size, kernel, stride, padding) ==
    (size - 1) * stride - 2 * padding + (kernel - 1) + 1

\* Python bool passed as output_padding is used as the integer 0 / 1
BoolToInt(b) == IF b THEN 1 ELSE 0

\* torch ConvTranspose2d output size (dilation 1) of a built deconv layer
ConvTransposeOut(size, layer) ==
    (size - 1) * layer.stride - 2 * layer.padding + (layer.kernel_size - 1)
        + layer.output_padding + 1

\* torch Conv2d output size of a built conv layer
ConvOut(size, layer) ==
    ((size + 2 * layer.padding - (layer.kernel_size - 1) - 1) \div layer.stride) + 1

(***************************************************************************)
(* Tensors: [shape |-> <<d1, ..>>, data |-> [index tuple |-> value]]       *)
(***************************************************************************)
RECURSIVE SumFcn(_, _)
SumFcn(f, n) == IF n = 0 THEN 0 ELSE f[n] + SumFcn(f, n - 1)

\* torch sum(dim = [1, 2]) of a 4-d tensor: axes 1 and 2 (0-based) are summed
\* away, axes 0 and 3 stay
TensorSumDims12(t) ==
    LET b == t.shape[1]
        c == t.shape[2]
        h == t.shape[3]
        w == t.shape[4]
    IN  [shape |-> <<b, w>>,
         data  |-> [idx \in (1..b) \X (1..w) |->
                      SumFcn([cc \in 1..c |->
                          SumFcn([y \in 1..h |-> t.data[<<idx[1], cc, y, idx[2]>>]], h)], c)]]

\* torch reshape((-1,)) of a 4-d tensor: one axis, row-major order
TensorFlatten(t) ==
    LET b == t.shape[1]
        c == t.shape[2]
        h == t.shape[3]
        w == t.shape[4]
        n == b * c * h * w
    IN  [shape |-> <<n>>,
         data  |-> [idx \in {<<k>> : k \in 1..n} |->
                      LET z == idx[1] - 1
                      IN  t.data[<< (z \div (c * h * w)) + 1,
                                    ((z \div (h * w)) % c) + 1,
                                    ((z \div w) % h) + 1,
                                    (z % w) + 1 >>]]]

\* encode_image, lines 43-48: the locals when the return statement is reached
EncodingVector(q, encoding) ==
    IF q THEN TensorSumDims12(encoding) ELSE TensorFlatten(encoding)

InitialShape(q, encoding) ==
    IF q THEN Unbound ELSE encoding.shape

\* encode_image as a whole: the return at line 49 reads initial_shape, which
\* raises UnboundLocalError when no assignment has bound it
encode_image(q, encoding) ==
    [encoding_vector |-> EncodingVector(q, encoding),
     initial_shape   |-> InitialShape(q, encoding),
     raised          |-> InitialShape(q, encoding) = Unbound]

\* a deterministic encoder output of shape (1, c, h, w) for image `image`
EncoderOutput(image, c, h, w) ==
    [shape |-> <<1, c, h, w>>,
     data  |-> [idx \in {1} \X (1..c) \X (1..h) \X (1..w) |->
                  image + 7 * idx[2] + 3 * idx[3] + idx[4]]]

(***************************************************************************)
(* Files and weights                                                       *)
(***************************************************************************)
NoModel == [origin |-> "none", steps |-> 0]

\* VisAutoEncoder.save: save_path + self.name + ".pt"
CkptPath(save_path, name) == <<save_path, name, ".pt">>

DefaultCkpt == <<"ckpts/", "default_model", ".pt">>
EncodingsCsv == <<"data/encodings.csv">>
EmbeddingsCsv == <<"data/embeddings.csv">>

ModelNames == {"default_model", "other_model"}

\* contents left by an earlier run
OldWeights == [origin |-> "checkpoint", steps |-> 0]
OldEncodings == << [shape |-> <<1>>, data |-> [idx \in {<<1>>} |-> 0]] >>

FreshWeights == [origin |-> "init", steps |-> 0]

WriteFile(fs, path, content) ==
    [p \in DOMAIN fs \cup {path} |-> IF p = path THEN content ELSE fs[p]]

Exists(fs, path) == path \in DOMAIN fs

InitialFiles ==
    { [p \in D |-> IF p = DefaultCkpt THEN OldWeights ELSE OldEncodings] :
        D \in SUBSET {DefaultCkpt, EncodingsCsv} }

(***************************************************************************)
(* Idle values of the parts a specification does not exercise              *)
(***************************************************************************)
ArchIdle ==
    /\ apc = "idle"
    /\ filter_channel_sizes = <<>>
    /\ in_size = <<>>
    /\ i = 0
    /\ h_out = Unbound
    /\ w_out = Unbound
    /\ size_list = <<>>
    /\ encoder = <<>>
    /\ decoder = <<>>
    /\ out_shape = <<>>

PipeIdle ==
    /\ pc = "idle"
    /\ retrain = FALSE
    /\ reencode = FALSE
    /\ quick = TRUE
    /\ epoch_num = 0
    /\ model_name = "default_model"
    /\ mode = "image"
    /\ num_batches = 0
    /\ num_images = 0
    /\ files0 = <<>>
    /\ files = <<>>
    /\ model = NoModel
    /\ grad = "none"
    /\ epoch = 0
    /\ batch = 0
    /\ saves = <<>>
    /\ returned = NoModel
    /\ enc_i = 0
    /\ encodings = <<>>
    /\ label_images = "unset"
    /\ error = "none"

EncIdle ==
    /\ epc = "idle"
    /\ e_quick = TRUE
    /\ e_encoding = <<>>
    /\ e_vector = Unbound
    /\ e_shape = Unbound

ArchInit ==
    /\ filter_channel_sizes \in SeqsUpTo(LayerSpecs, MaxLayers)
    /\ in_size \in (1..MaxSize) \X (1..MaxSize)
    /\ apc = "encoder_loop"
    /\ i = 0
    /\ h_out = Unbound
    /\ w_out = Unbound
    /\ size_list = << <<in_size[1], in_size[2]>> >>
    /\ encoder = <<>>
    /\ decoder = <<>>
    /\ out_shape = <<>>
    /\ PipeIdle
    /\ EncIdle

\* one iteration of the encoder loop, lines 47-75
EncoderLayer ==
    /\ apc = "encoder_loop"
    /\ i < Len(filter_channel_sizes)
    /\ LET filter_size == filter_channel_sizes[i + 1]
           in_channels == filter_size[1]
           out_channels == filter_size[2]
           kernel == filter_size[3]
           stride == filter_size[4]
           padding == filter_size[5]
           h == IF i = 0 THEN ConvOutFirst(in_size[1], kernel, stride, padding)
                         ELSE ConvOutLater(h_out, kernel, stride, padding)
           w == IF i = 0 THEN ConvOutFirst(in_size[2], kernel, stride, padding)
                         ELSE ConvOutLater(w_out, kernel, stride, padding)
       IN  /\ encoder' = Append(encoder,
                [in_channels |-> in_channels, out_channels |-> out_channels,
                 kernel_size |-> kernel, stride |-> stride, padding |-> padding])
           /\ h_out' = h
           /\ w_out' = w
           /\ size_list' = Append(size_list, <<h, w>>)
    /\ i' = i + 1
    /\ UNCHANGED <<apc, filter_channel_sizes, in_size, decoder, out_shape>>
    /\ UNCHANGED <<pipeVars, encVars>>

\* end of the encoder loop: size_list.reverse(), line 78
ReverseSizes ==
    /\ apc = "encoder_loop"
    /\ i = Len(filter_channel_sizes)
    /\ size_list' = Reverse(size_list)
    /\ apc' = "decoder_loop"
    /\ i' = 0
    /\ UNCHANGED <<filter_channel_sizes, in_size, h_out, w_out, encoder, decoder, out_shape>>
    /\ UNCHANGED <<pipeVars, encVars>>

\* one iteration of the decoder loop, lines 82-110
DecoderLayer ==
    /\ apc = "decoder_loop"
    /\ i < Len(filter_channel_sizes)
    /\ LET filter_size == Reverse(filter_channel_sizes)[i + 1]
           in_channels == filter_size[2]
           out_channels == filter_size[1]
           stride == filter_size[4]
           kernel == filter_size[3]
           padding == filter_size[5]
           h_in == DeconvEstimate(size_list[i + 1][1], kernel, stride, padding)
           output_padding == BoolToInt(h_in /= size_list[i + 2][1])
       IN  decoder' = Append(decoder,
                [in_channels |-> in_channels, out_channels |-> out_channels,
                 kernel_size |-> kernel, stride |-> stride, padding |-> padding,
                 output_padding |-> output_padding])
    /\ i' = i + 1
    /\ UNCHANGED <<apc, filter_channel_sizes, in_size, h_out, w_out, size_list,
                   encoder, out_shape>>
    /\ UNCHANGED <<pipeVars, encVars>>

\* end of the decoder loop: the constructor returns
Built ==
    /\ apc = "decoder_loop"
    /\ i = Len(filter_channel_sizes)
    /\ apc' = "built"
    /\ UNCHANGED <<filter_channel_sizes, in_size, i, h_out, w_out, size_list,
                   encoder, decoder, out_shape>>
    /\ UNCHANGED <<pipeVars, encVars>>

\* spatial sizes of x after each encoder layer, starting from the input size
RECURSIVE EncodeSizes(_, _)
EncodeSizes(size, layers) ==
    IF layers = <<>> THEN <<size>>
    ELSE <<size>> \o EncodeSizes(<<ConvOut(size[1], Head(layers)),
                                   ConvOut(size[2], Head(layers))>>, Tail(layers))

RECURSIVE DecodeSize(_, _)
DecodeSize(size, layers) ==
    IF layers = <<>> THEN size
    ELSE DecodeSize(<<ConvTransposeOut(size[1], Head(layers)),
                      ConvTransposeOut(size[2], Head(layers))>>, Tail(layers))

\* forward(x) on an input of the declared in_size, lines 112-115; torch raises
\* when a convolution's output would be empty
Forward ==
    /\ apc = "built"
    /\ LET sizes == EncodeSizes(in_size, encoder)
           ok == \A j \in 1..Len(sizes) : sizes[j][1] >= 1 /\ sizes[j][2] >= 1
       IN  out_shape' = IF ok THEN DecodeSize(sizes[Len(sizes)], decoder) ELSE "raised"
    /\ apc' = "forward_done"
    /\ UNCHANGED <<filter_channel_sizes, in_size, i, h_out, w_out, size_list,
                   encoder, decoder>>
    /\ UNCHANGED <<pipeVars, encVars>>

ArchNext == EncoderLayer \/ ReverseSizes \/ DecoderLayer \/ Built \/ Forward

SpecArch == ArchInit /\ [][ArchNext]_vars

(***************************************************************************)
(* generate_embeddings and train                                           *)
(***************************************************************************)
\* shape of the encoder output the pipeline's model produces for one image
PipeEncoding(image) == EncoderOutput(image, 2, 2, 3)

EmbedInit ==
    /\ ArchIdle
    /\ EncIdle
    /\ pc = "generate_embeddings"
    /\ retrain \in BOOLEAN
    /\ reencode \in BOOLEAN
    /\ quick \in BOOLEAN
    /\ epoch_num \in 0..MaxEpochs
    /\ model_name \in ModelNames
    /\ mode \in {"image", "audio"}
    /\ num_batches \in 0..MaxBatches
    /\ num_images \in 0..MaxImages
    /\ files0 \in InitialFiles
    /\ files = files0
    /\ model = NoModel
    /\ grad = "none"
    /\ epoch = 0
    /\ batch = 0
    /\ saves = <<>>
    /\ returned = NoModel
    /\ enc_i = 0
    /\ encodings = <<>>
    /\ label_images = "unset"
    /\ error = "none"

\* embedding.py line 67-68: the retrain condition holds, train(opt) is called
CallTrain ==
    /\ pc = "generate_embeddings"
    /\ retrain \/ ~Exists(files, DefaultCkpt)
    /\ pc' = "train"
    /\ UNCHANGED <<retrain, reencode, quick, epoch_num, model_name, mode, num_batches,
                   num_images, files0, files, model, grad, epoch, batch, saves, returned,
                   enc_i, encodings, label_images, error>>
    /\ UNCHANGED <<archVars, encVars>>

\* embedding.py lines 69-73: the model is built and loaded from the checkpoint
LoadCheckpoint ==
    /\ pc = "generate_embeddings"
    /\ ~(retrain \/ ~Exists(files, DefaultCkpt))
    /\ model' = files[DefaultCkpt]
    /\ pc' = "model_ready"
    /\ UNCHANGED <<retrain, reencode, quick, epoch_num, model_name, mode, num_batches,
                   num_images, files0, files, grad, epoch, batch, saves, returned,
                   enc_i, encodings, label_images, error>>
    /\ UNCHANGED <<archVars, encVars>>

\* train.py lines 34-55, image mode: model and optimizer are created
TrainSetup ==
    /\ pc = "train"
    /\ mode = "image"
    /\ model' = FreshWeights
    /\ epoch' = 1
    /\ pc' = "epoch"
    /\ UNCHANGED <<retrain, reencode, quick, epoch_num, model_name, mode, num_batches,
                   num_images, files0, files, grad, batch, saves, returned,
                   enc_i, encodings, label_images, error>>
    /\ UNCHANGED <<archVars, encVars>>

\* train.py lines 44-45: any other mode raises AttributeError
TrainUnsupported ==
    /\ pc = "train"
    /\ mode /= "image"
    /\ error' = "AttributeError"
    /\ pc' = "raised"
    /\ UNCHANGED <<retrain, reencode, quick, epoch_num, model_name, mode, num_batches,
                   num_images, files0, files, model, grad, epoch, batch, saves, returned,
                   enc_i, encodings, label_images>>
    /\ UNCHANGED <<archVars, encVars>>

\* train.py lines 57-64: an epoch of range(1, epoch_num + 1) starts
EpochStart ==
    /\ pc = "epoch"
    /\ epoch <= epoch_num
    /\ batch' = 0
    /\ pc' = "batch"
    /\ UNCHANGED <<retrain, reencode, quick, epoch_num, model_name, mode, num_batches,
                   num_images, files0, files, model, grad, epoch, saves, returned,
                   enc_i, encodings, label_images, error>>
    /\ UNCHANGED <<archVars, encVars>>

\* train.py lines 65-70: the loader yields a batch, optimizer.zero_grad()
ZeroGrad ==
    /\ pc = "batch"
    /\ batch < num_batches
    /\ grad' = "zero"
    /\ pc' = "forward"
    /\ UNCHANGED <<retrain, reencode, quick, epoch_num, model_name, mode, num_batches,
                   num_images, files0, files, model, epoch, batch, saves, returned,
                   enc_i, encodings, label_images, error>>
    /\ UNCHANGED <<archVars, encVars>>

\* train.py lines 78-85: output = model(data), the loss is computed
ForwardLoss ==
    /\ pc = "forward"
    /\ pc' = "backward"
    /\ UNCHANGED <<retrain, reencode, quick, epoch_num, model_name, mode, num_batches,
                   num_images, files0, files, model, grad, epoch, batch, saves, returned,
                   enc_i, encodings, label_images, error>>
    /\ UNCHANGED <<archVars, encVars>>

\* train.py line 88: loss.backward()
Backward ==
    /\ pc = "backward"
    /\ grad' = "computed"
    /\ pc' = "step"
    /\ UNCHANGED <<retrain, reencode, quick, epoch_num, model_name, mode, num_batches,
                   num_images, files0, files, model, epoch, batch, saves, returned,
                   enc_i, encodings, label_images, error>>
    /\ UNCHANGED <<archVars, encVars>>

\* train.py lines 91-93: optimizer.step() changes the weights
OptimizerStep ==
    /\ pc = "step"
    /\ model' = [model EXCEPT !.steps = @ + 1]
    /\ grad' = "applied"
    /\ batch' = batch + 1
    /\ pc' = "batch"
    /\ UNCHANGED <<retrain, reencode, quick, epoch_num, model_name, mode, num_batches,
                   num_images, files0, files, epoch, saves, returned,
                   enc_i, encodings, label_images, error>>
    /\ UNCHANGED <<archVars, encVars>>

\* the save moved into the batch loop: it runs whatever the batch count
SaveEveryBatch ==
    /\ pc = "batch"
    /\ files' = WriteFile(files, CkptPath("ckpts/", model_name), model)
    /\ saves' = Append(saves, [epoch |-> epoch, path |-> CkptPath("ckpts/", model_name),
                               weights |-> model, batches |-> batch])
    /\ epoch' = epoch + 1
    /\ pc' = "epoch"
    /\ UNCHANGED <<retrain, reencode, quick, epoch_num, model_name, mode, num_batches,
                   num_images, files0, model, grad, batch, returned,
                   enc_i, encodings, label_images, error>>
    /\ UNCHANGED <<archVars, encVars>>

\* train.py lines 96-101: the batch loop is exhausted, model.save(), next epoch
SaveEpoch ==
    /\ pc = "batch"
    /\ batch = num_batches
    /\ files' = WriteFile(files, CkptPath("ckpts/", model_name), model)
    /\ saves' = Append(saves, [epoch |-> epoch, path |-> CkptPath("ckpts/", model_name),
                               weights |-> model, batches |-> batch])
    /\ epoch' = epoch + 1
    /\ pc' = "epoch"
    /\ UNCHANGED <<retrain, reencode, quick, epoch_num, model_name, mode, num_batches,
                   num_images, files0, model, grad, batch, returned,
                   enc_i, encodings, label_images, error>>
    /\ UNCHANGED <<archVars, encVars>>

\* train.py line 102: the epoch range is exhausted, the model is returned
TrainReturn ==
    /\ pc = "epoch"
    /\ epoch > epoch_num
    /\ returned' = model
    /\ pc' = "model_ready"
    /\ UNCHANGED <<retrain, reencode, quick, epoch_num, model_name, mode, num_batches,
                   num_images, files0, files, model, grad, epoch, batch, saves,
                   enc_i, encodings, label_images, error>>
    /\ UNCHANGED <<archVars, encVars>>

\* embedding.py lines 77-93: eval mode, reload with batch size 1, and the
\* reencode condition holds: the encoding loop starts
StartEncoding ==
    /\ pc = "model_ready"
    /\ reencode \/ ~Exists(files, EncodingsCsv)
    /\ encodings' = <<>>
    /\ enc_i' = 0
    /\ pc' = "encode"
    /\ UNCHANGED <<retrain, reencode, quick, epoch_num, model_name, mode, num_batches,
                   num_images, files0, files, model, grad, epoch, batch, saves, returned,
                   label_images, error>>
    /\ UNCHANGED <<archVars, encVars>>

\* embedding.py lines 110-113: the encodings are read from the file
LoadEncodings ==
    /\ pc = "model_ready"
    /\ ~(reencode \/ ~Exists(files, EncodingsCsv))
    /\ encodings' = files[EncodingsCsv]
    /\ pc' = "embed"
    /\ UNCHANGED <<retrain, reencode, quick, epoch_num, model_name, mode, num_batches,
                   num_images, files0, files, model, grad, epoch, batch, saves, returned,
                   enc_i, label_images, error>>
    /\ UNCHANGED <<archVars, encVars>>

\* embedding.py lines 94-104: one image is encoded and stored under its path
EncodeImage ==
    /\ pc = "encode"
    /\ enc_i < num_images
    /\ LET path == enc_i + 1
           res == encode_image(quick, PipeEncoding(path))
       IN  /\ ~res.raised
           /\ encodings' = WriteFile(encodings, path, res.encoding_vector)
    /\ enc_i' = enc_i + 1
    /\ UNCHANGED <<pc, retrain, reencode, quick, epoch_num, model_name, mode, num_batches,
                   num_images, files0, files, model, grad, epoch, batch, saves, returned,
                   label_images, error>>
    /\ UNCHANGED <<archVars, encVars>>

\* embedding.py line 102: encode_image raises, the exception leaves
\* generate_embeddings
EncodeImageRaises ==
    /\ pc = "encode"
    /\ enc_i < num_images
    /\ encode_image(quick, PipeEncoding(enc_i + 1)).raised
    /\ enc_i' = enc_i + 1
    /\ error' = "UnboundLocalError: initial_shape"
    /\ pc' = "raised"
    /\ UNCHANGED <<retrain, reencode, quick, epoch_num, model_name, mode, num_batches,
                   num_images, files0, files, model, grad, epoch, batch, saves, returned,
                   encodings, label_images>>
    /\ UNCHANGED <<archVars, encVars>>

\* embedding.py lines 107-109: after the loop the encodings are written
WriteEncodings ==
    /\ pc = "encode"
    /\ enc_i = num_images
    /\ num_images > 0
    /\ files' = WriteFile(files, EncodingsCsv, encodings)
    /\ pc' = "embed"
    /\ UNCHANGED <<retrain, reencode, quick, epoch_num, model_name, mode, num_batches,
                   num_images, files0, model, grad, epoch, batch, saves, returned,
                   enc_i, encodings, label_images, error>>
    /\ UNCHANGED <<archVars, encVars>>

\* embedding.py line 108: with no image the loop never bound `encoding`, and
\* the print before to_csv raises
WriteEncodingsUnbound ==
    /\ pc = "encode"
    /\ enc_i = num_images
    /\ num_images = 0
    /\ error' = "UnboundLocalError: encoding"
    /\ pc' = "raised"
    /\ UNCHANGED <<retrain, reencode, quick, epoch_num, model_name, mode, num_batches,
                   num_images, files0, files, model, grad, epoch, batch, saves, returned,
                   enc_i, encodings, label_images>>
    /\ UNCHANGED <<archVars, encVars>>

\* embedding.py lines 117-142: embedding, clustering, optional decoding of the
\* centroids, and the embeddings file
EmbedAndCluster ==
    /\ pc = "embed"
    /\ label_images' = IF reencode /\ ~quick THEN "images" ELSE "None"
    /\ files' = WriteFile(files, EmbeddingsCsv, "embeddings")
    /\ pc' = "done"
    /\ UNCHANGED <<retrain, reencode, quick, epoch_num, model_name, mode, num_batches,
                   num_images, files0, model, grad, epoch, batch, saves, returned,
                   enc_i, encodings, error>>
    /\ UNCHANGED <<archVars, encVars>>

EmbedNext ==
    \/ CallTrain \/ LoadCheckpoint
    \/ TrainSetup \/ TrainUnsupported \/ EpochStart
    \/ ZeroGrad \/ ForwardLoss \/ Backward \/ OptimizerStep
    \/ SaveEpoch \/ TrainReturn
    \/ StartEncoding \/ LoadEncodings
    \/ EncodeImage \/ EncodeImageRaises
    \/ WriteEncodings \/ WriteEncodingsUnbound
    \/ EmbedAndCluster

SpecEmbed == EmbedInit /\ [][EmbedNext]_vars

(***************************************************************************)
(* encode_image on its own                                                 *)
(***************************************************************************)
EncodeInit ==
    /\ ArchIdle
    /\ PipeIdle
    /\ epc = "encode_image"
    /\ e_quick \in BOOLEAN
    /\ \E image \in 1..MaxImages, c \in 1..MaxChannels,
          h \in 1..MaxEncSize, w \in 1..MaxEncSize :
            e_encoding = EncoderOutput(image, c, h, w)
    /\ e_vector = Unbound
    /\ e_shape = Unbound

\* embedding.py lines 43-48: the branch on quick
EncodeBody ==
    /\ epc = "encode_image"
    /\ e_vector' = EncodingVector(e_quick, e_encoding)
    /\ e_shape' = InitialShape(e_quick, e_encoding)
    /\ epc' = "return"
    /\ UNCHANGED <<e_quick, e_encoding>>
    /\ UNCHANGED <<archVars, pipeVars>>

\* embedding.py line 49: both locals are bound, the pair is returned
EncodeReturn ==
    /\ epc = "return"
    /\ ~encode_image(e_quick, e_encoding).raised
    /\ epc' = "returned"
    /\ UNCHANGED <<e_quick, e_encoding, e_vector, e_shape>>
    /\ UNCHANGED <<archVars, pipeVars>>

\* embedding.py line 49: initial_shape is unbound, UnboundLocalError
EncodeRaise ==
    /\ epc = "return"
    /\ encode_image(e_quick, e_encoding).raised
    /\ epc' = "raised"
    /\ UNCHANGED <<e_quick, e_encoding, e_vector, e_shape>>
    /\ UNCHANGED <<archVars, pipeVars>>

EncodeNext == EncodeBody \/ EncodeReturn \/ EncodeRaise

SpecEncode == EncodeInit /\ [][EncodeNext]_vars

(***************************************************************************)
(* Claims about VisAutoEncoder.__init__ (checked under SpecArch)           *)
(***************************************************************************)
NumLayers == Len(filter_channel_sizes)

EncoderLoopDone == apc = "encoder_loop" /\ i = NumLayers

\* every size the encoder produces is a valid (non-empty) spatial size
EncoderSizesValid ==
    \A j \in 1..Len(size_list) : size_list[j][1] >= 1 /\ size_list[j][2] >= 1

\* C1: whenever all encoder sizes stay >= 1, chaining the ConvTranspose2d
\* size formula through the decoder layers, starting from the encoder's final
\* size, gives back exactly the input size (H, W).
C1_OutputSizeEqualsInput ==
    (apc = "forward_done" /\ EncoderSizesValid) => out_shape = in_size

\* C2: after the encoder loop (before the reversal) size_list has n + 1
\* entries, starts with in_size, and each next entry is the Conv2d output
\* size floor((prev + 2*padding - (kernel-1) - 1) / stride) + 1 of the
\* previous one, for height and width, for the first and the later layers.
C2_SizeListRecurrence ==
    EncoderLoopDone =>
        /\ Len(size_list) = NumLayers + 1
        /\ size_list[1] = in_size
        /\ \A j \in 1..NumLayers : \A d \in 1..2 :
              LET kernel == filter_channel_sizes[j][3]
                  stride == filter_channel_sizes[j][4]
                  padding == filter_channel_sizes[j][5]
                  num == size_list[j][d] + 2 * padding - (kernel - 1) - 1
                  \* floor of num / stride, stated without the division operator
                  q == CHOOSE x \in -(MaxSize + 3 * MaxLayers)..(MaxSize + 3 * MaxLayers) :
                          x * stride <= num /\ num < (x + 1) * stride
              IN  size_list[j + 1][d] = q + 1

\* C2 witness: a two-layer encoder whose second (later-branch) layer has
\* stride 2 and rounds an odd numerator down
C2_Witness ==
    /\ EncoderLoopDone
    /\ NumLayers = 2
    /\ filter_channel_sizes[2][4] = 2
    /\ (size_list[2][1] + 2 * filter_channel_sizes[2][5] - filter_channel_sizes[2][3]) % 2 = 1
    /\ size_list[3][1] >= 1
    /\ size_list[2][1] /= in_size[1]

\* C3: the decoder mirrors the encoder: n deconv layers, decoder layer idx
\* (0-based) has the kernel, stride and padding of encoder layer n-1-idx with
\* its channels swapped; so when the specs' channels chain, the decoder's
\* channels chain too and end at the first spec's in_channels.
C3_DecoderMirrorsEncoder ==
    apc = "built" =>
        /\ Len(encoder) = NumLayers
        /\ Len(decoder) = NumLayers
        /\ \A j \in 1..NumLayers :
              /\ encoder[j].in_channels = filter_channel_sizes[j][1]
              /\ encoder[j].out_channels = filter_channel_sizes[j][2]
              /\ encoder[j].kernel_size = filter_channel_sizes[j][3]
              /\ encoder[j].stride = filter_channel_sizes[j][4]
              /\ encoder[j].padding = filter_channel_sizes[j][5]
        /\ \A idx \in 0..(NumLayers - 1) :
              LET dec == decoder[idx + 1]
                  enc == encoder[NumLayers - idx]
              IN  /\ dec.kernel_size = enc.kernel_size
                  /\ dec.stride = enc.stride
                  /\ dec.padding = enc.padding
                  /\ dec.in_channels = enc.out_channels
                  /\ dec.out_channels = enc.in_channels
        /\ (\A j \in 2..NumLayers :
                filter_channel_sizes[j][1] = filter_channel_sizes[j - 1][2])
             => /\ \A j \in 2..NumLayers :
                      decoder[j].in_channels = decoder[j - 1].out_channels
                /\ NumLayers >= 1 =>
                      decoder[NumLayers].out_channels = filter_channel_sizes[1][1]

\* C3 witness: a built two-layer autoencoder with chained channels whose two
\* layers differ in kernel, stride and padding
C3_Witness ==
    /\ apc = "built"
    /\ NumLayers = 2
    /\ filter_channel_sizes[2][1] = filter_channel_sizes[1][2]
    /\ filter_channel_sizes[1][3] /= filter_channel_sizes[2][3]
    /\ filter_channel_sizes[1][4] /= filter_channel_sizes[2][4]
    /\ filter_channel_sizes[1][5] /= filter_channel_sizes[2][5]
    /\ Len(decoder) = 2

(***************************************************************************)
(* Claims about train (checked under SpecEmbed)                            *)
(***************************************************************************)
InBatchLoop == pc \in {"batch", "forward", "backward", "step"}

\* checkpoint files created or changed since generate_embeddings was called
CheckpointsProduced ==
    { p \in DOMAIN files :
        /\ p[1] = "ckpts/"
        /\ (~Exists(files0, p) \/ files[p] /= files0[p]) }

\* C4: the model is saved exactly once per epoch, after all batches of the
\* epoch went through the optimizer step and before the next epoch's first
\* batch; all saves write one path, so at most one checkpoint file is
\* produced, and after epoch_num >= 1 epochs it holds the weights of the
\* last epoch, which are the weights of the returned model.
C4_SavedOncePerEpoch ==
    /\ \A k \in 1..Len(saves) :
          /\ saves[k].epoch = k
          /\ saves[k].batches = num_batches
          /\ saves[k].weights.steps = k * num_batches
          /\ saves[k].path = saves[1].path
    /\ InBatchLoop => Len(saves) = epoch - 1
    /\ InBatchLoop /\ batch < num_batches => model.steps < epoch * num_batches
    /\ Cardinality(CheckpointsProduced) <= 1
    /\ returned /= NoModel =>
          /\ Len(saves) = epoch_num
          /\ returned = model
          /\ returned.steps = epoch_num * num_batches
          /\ epoch_num >= 1 =>
                /\ CheckpointsProduced = {saves[1].path}
                /\ files[saves[1].path] = returned

\* C4 witness: train returned after two epochs of two batches each
C4_Witness ==
    /\ returned /= NoModel
    /\ epoch_num = 2
    /\ num_batches = 2
    /\ Len(saves) = 2
    /\ saves[1].weights /= saves[2].weights
    /\ files[saves[2].path] = saves[2].weights

(***************************************************************************)
(* Claims about generate_embeddings (checked under SpecEmbed)              *)
(***************************************************************************)
Ended == pc \in {"done", "raised"}

TrainAsked == retrain \/ ~Exists(files0, DefaultCkpt)
EncodeAsked == reencode \/ ~Exists(files0, EncodingsCsv)

EncodingsWritten ==
    /\ Exists(files, EncodingsCsv)
    /\ (~Exists(files0, EncodingsCsv) \/ files[EncodingsCsv] /= files0[EncodingsCsv])

\* C5: with a non-empty image dataset, train runs iff retrain or the default
\* checkpoint is missing (otherwise the model is the loaded checkpoint and
\* nothing is trained or saved), and data/encodings.csv is written iff
\* reencode or the file is missing (otherwise the encodings are the file's
\* and the file is unchanged).
C5_RecomputedOnlyWhenAsked ==
    (Ended /\ mode = "image" /\ num_images >= 1) =>
        /\ (returned /= NoModel) <=> TrainAsked
        /\ ~TrainAsked =>
              /\ model = files0[DefaultCkpt]
              /\ saves = <<>>
              /\ CheckpointsProduced = {}
        /\ EncodingsWritten <=> EncodeAsked
        /\ ~EncodeAsked =>
              /\ encodings = files0[EncodingsCsv]
              /\ files[EncodingsCsv] = files0[EncodingsCsv]
              /\ enc_i = 0

\* C6: with quick = True encode_image returns normally for every image, so
\* the encoding loop never raises and ends with one encoding per path.
C6_QuickEncodingReturns ==
    quick =>
        /\ error /= "UnboundLocalError: initial_shape"
        /\ (pc \in {"embed", "done"} /\ EncodeAsked) => DOMAIN encodings = 1..num_images

(***************************************************************************)
(* Claims about encode_image (checked under SpecEncode)                    *)
(***************************************************************************)
\* the entries of a vector-like tensor of shape (n) or (1, n), in order
VectorEntries(t) ==
    IF Len(t.shape) = 1
    THEN [k \in 1..t.shape[1] |-> t.data[<<k>>]]
    ELSE [k \in 1..t.shape[2] |-> t.data[<<1, k>>]]

\* per channel, the sum of the image over its height and width
ChannelSums(t) ==
    [cc \in 1..t.shape[2] |->
        SumFcn([y \in 1..t.shape[3] |->
            SumFcn([x \in 1..t.shape[4] |-> t.data[<<1, cc, y, x>>]], t.shape[4])],
               t.shape[3])]

\* C7: with quick = True and an encoder output of shape (1, C, h, w), the
\* encoding vector has C entries, entry c being the sum of channel c over the
\* image dimensions h and w.
C7_QuickVectorSumsImageDims ==
    (e_quick /\ epc /= "encode_image") =>
        VectorEntries(e_vector) = ChannelSums(e_encoding)

====
